---- MODULE Spec2Model ----
(***************************************************************************)
(* A model of the three Translator clients of this repository              *)
(* (deepl_pro, deepl_translator, recap_deepl_pro): construction, the       *)
(* request builder, the single-text translation with its retry recursion   *)
(* and the batch translation, sequential or through a process pool.        *)
(*                                                                         *)
(* Python values are modelled as records [type, v]: an enum member is      *)
(* [type |-> <enum class>, v |-> <member name>], a str is                  *)
(* [type |-> "str", v |-> <the string>], None is [type |-> "NoneType"].    *)
(* The HTTP service, the process pool and time.sleep are collaborators:    *)
(* the service answers any status code and body of the sets below.         *)
(***************************************************************************)
EXTENDS Integers, Sequences, FiniteSets, TLC

VARIABLES
    variant,    \* which package's Translator class is in use
    phase,      \* "new" | "ctor_failed" | "idle" | "running"
    cfg,        \* the fields of the constructed Translator
    cfg0,       \* the fields as they were when the constructor returned
    args,       \* the arguments the constructor was called with
    call,       \* the call in progress, or the last one
    w,          \* per text of the call: the translate_text run for it
    outcome     \* how the last call ended

vars == <<variant, phase, cfg, cfg0, args, call, w, outcome>>

(***************************************************************************)
(* Bounds of the model.                                                    *)
(***************************************************************************)
MaxRetryLimit == 2

(***************************************************************************)
(* Python values.                                                          *)
(***************************************************************************)
Variants == {"deepl_pro", "deepl_translator", "recap_deepl_pro"}

Member(enum, name) == [type |-> enum, v |-> name]

Str(s) == [type |-> "str", v |-> s]

None == [type |-> "NoneType", v |-> "None"]

Unset == [type |-> "unset", v |-> ""]

True == [type |-> "bool", v |-> "True"]

LanguageNames == {"EN", "DE", "FR", "ES", "PT", "IT", "NL", "PL", "RU"}

LowerCode ==
    [EN |-> "en", DE |-> "de", FR |-> "fr", ES |-> "es", PT |-> "pt",
     IT |-> "it", NL |-> "nl", PL |-> "pl", RU |-> "ru"]

\* class Language(Enum): member name -> value, per package.
Language(v) ==
    IF v = "deepl_translator"
    THEN [n \in LanguageNames |-> n]
    ELSE [n \in LanguageNames |-> LowerCode[n]]

\* class TagHandling(Enum): deepl_pro alone has the PLAIN member.
TagHandling(v) ==
    IF v = "deepl_pro"
    THEN [XML |-> "xml", PLAIN |-> "plain"]
    ELSE [XML |-> "xml"]

SentenceSplitting ==
    [NOTHING |-> "0", INTERPUNCTION |-> "nonewlines", NEWLINES_INTERPUNCTION |-> "1"]

Formatting == [PRESERVE |-> "1", DISCARD |-> "0"]

Outline == [DETECT |-> "1", IGNORE |-> "0"]

\* The member table of an enum class, by class name.
EnumTable(v, enum) ==
    CASE enum = "Language" -> Language(v)
      [] enum = "TagHandling" -> TagHandling(v)
      [] enum = "SentenceSplitting" -> SentenceSplitting
      [] enum = "Formatting" -> Formatting
      [] enum = "Outline" -> Outline

EnumClasses == {"Language", "TagHandling", "SentenceSplitting", "Formatting", "Outline"}

NoErr == [type |-> "", msg |-> ""]

Err(t, m) == [type |-> t, msg |-> m]

\* x.value: the value of an enum member; any other object has no such attribute.
ValueOf(v, x) ==
    IF x.type \in EnumClasses /\ x.v \in DOMAIN EnumTable(v, x.type)
    THEN [ok |-> TRUE, s |-> EnumTable(v, x.type)[x.v], err |-> NoErr]
    ELSE [ok |-> FALSE, s |-> "",
          err |-> Err("AttributeError", "object has no attribute 'value'")]

\* bool(x) as the if statements of _build_request evaluate it.
Truthy(x) ==
    CASE x.type = "NoneType" -> FALSE
      [] x.type = "str" -> x.v # ""
      [] OTHER -> TRUE

\* to_enum(value, enum): the value itself when it is a member of enum, else
\* enum(value), the lookup of a member by value, which raises ValueError.
to_enum(v, value, enum) ==
    IF value.type = enum
    THEN [ok |-> TRUE, val |-> value, err |-> NoErr]
    ELSE LET hits == {n \in DOMAIN EnumTable(v, enum) :
                         value.type = "str" /\ EnumTable(v, enum)[n] = value.v}
         IN IF hits # {}
            THEN [ok |-> TRUE, val |-> Member(enum, CHOOSE n \in hits : TRUE), err |-> NoErr]
            ELSE [ok |-> FALSE, val |-> None,
                  err |-> Err("ValueError", "not a valid " \o enum)]

(***************************************************************************)
(* Construction.  deepl_pro has a hand-written __init__ that converts the  *)
(* languages and the tag-handling mode with to_enum; the other two are     *)
(* dataclasses whose generated __init__ stores every argument as given.    *)
(* The tag lists of deepl_pro default to None and those of the dataclasses *)
(* to []: both are falsy at their only use (if param), and both are <<>>   *)
(* here.                                                                   *)
(***************************************************************************)
DefaultRetryTimeout == 2

FixedTimeout == 5

AuthKey == "secret"

\* The attributes every Translator instance has after a successful __init__.
Fields(a, sl, tl, th) ==
    [auth_key |-> AuthKey,
     source_lang |-> sl,
     target_lang |-> tl,
     split_sentences |-> a.split_sentences,
     preserve_formatting |-> a.preserve_formatting,
     tag_handling |-> th,
     outline_detection |-> a.outline_detection,
     non_splitting_tags |-> a.non_splitting_tags,
     splitting_tags |-> a.splitting_tags,
     ignore_tags |-> a.ignore_tags,
     retry_limit |-> a.retry_limit]

\* deepl_pro: Translator.__init__.
InitDeeplPro(a) ==
    LET sl == to_enum("deepl_pro", a.source_lang, "Language")
        tl == to_enum("deepl_pro", a.target_lang, "Language")
        th == to_enum("deepl_pro",
                      IF a.tag_handling = Unset
                      THEN Member("TagHandling", "PLAIN") ELSE a.tag_handling,
                      "TagHandling")
    IN CASE ~sl.ok -> [ok |-> FALSE, self |-> <<>>, err |-> sl.err]
         [] sl.ok /\ ~tl.ok -> [ok |-> FALSE, self |-> <<>>, err |-> tl.err]
         [] sl.ok /\ tl.ok /\ ~th.ok -> [ok |-> FALSE, self |-> <<>>, err |-> th.err]
         [] OTHER ->
              [ok |-> TRUE,
               self |-> Fields(a, sl.val, tl.val, th.val)
                          @@ [retry_timeout |-> DefaultRetryTimeout],
               err |-> NoErr]

\* deepl_translator and recap_deepl_pro: the __init__ @dataclass generates.
\* Nothing is converted or validated; deepl_translator has no retry_timeout.
InitDataclass(v, a) ==
    LET th == IF a.tag_handling = Unset THEN None ELSE a.tag_handling
        f == Fields(a, a.source_lang, a.target_lang, th)
    IN [ok |-> TRUE,
        self |-> IF v = "recap_deepl_pro"
                 THEN f @@ [retry_timeout |-> DefaultRetryTimeout]
                 ELSE f,
        err |-> NoErr]

\* Translator(auth_key, ...): no __init__ of the three has an xml_handling
\* parameter or takes **kwargs, so passing it is a TypeError of the call.
NewTranslator(v, a) ==
    IF a.xml_handling # Unset
    THEN [ok |-> FALSE, self |-> <<>>,
          err |-> Err("TypeError", "unexpected keyword argument 'xml_handling'")]
    ELSE IF v = "deepl_pro" THEN InitDeeplPro(a) ELSE InitDataclass(v, a)

(***************************************************************************)
(* _build_request.  A request is a function from keys to string values.    *)
(***************************************************************************)
RECURSIVE Join(_)
\* ",".join(tags)
Join(tags) ==
    IF tags = <<>> THEN ""
    ELSE IF Len(tags) = 1 THEN tags[1]
    ELSE tags[1] \o "," \o Join(Tail(tags))

\* The characters tag names and their joins are made of.
Chars == {"b", "i", "p", "r", ","}

\* params.update({s}): the argument is a set holding the one string s, so
\* update() iterates it and takes each element as a (key, value) pair.  A
\* string of two characters unpacks into such a pair; any other length raises
\* ValueError.
DictUpdateFromSet(params, s) ==
    IF Len(s) = 2
    THEN LET kv == CHOOSE p \in Chars \X Chars : p[1] \o p[2] = s
         IN [ok |-> TRUE, params |-> (kv[1] :> kv[2]) @@ params, err |-> NoErr]
    ELSE [ok |-> FALSE, params |-> params,
          err |-> Err("ValueError", "dictionary update sequence element has length # 2")]

RECURSIVE AddTagLists(_, _)
\* for param in [non_splitting_tags, splitting_tags, ignore_tags]:
\*     if param: params.update({",".join(param)})
AddTagLists(params, lists) ==
    IF lists = <<>> THEN [ok |-> TRUE, params |-> params, err |-> NoErr]
    ELSE IF Head(lists) = <<>> THEN AddTagLists(params, Tail(lists))
    ELSE LET u == DictUpdateFromSet(params, Join(Head(lists)))
         IN IF u.ok THEN AddTagLists(u.params, Tail(lists)) ELSE u

BaseKeys ==
    {"auth_key", "text", "source_lang", "target_lang", "split_sentences",
     "preserve_formatting"}

TagModeKeys == {"tag_handling", "outline_detection"}

_build_request(v, self, text) ==
    LET sl == ValueOf(v, self.source_lang)
        tl == ValueOf(v, self.target_lang)
        ss == ValueOf(v, self.split_sentences)
        pf == ValueOf(v, self.preserve_formatting)
        th == ValueOf(v, self.tag_handling)
        od == ValueOf(v, self.outline_detection)
        base == [auth_key |-> self.auth_key, text |-> text,
                 source_lang |-> sl.s, target_lang |-> tl.s,
                 split_sentences |-> ss.s, preserve_formatting |-> pf.s]
        fail(e) == [ok |-> FALSE, params |-> <<>>, err |-> e]
    IN CASE ~sl.ok -> fail(sl.err)
         [] sl.ok /\ ~tl.ok -> fail(tl.err)
         [] sl.ok /\ tl.ok /\ ~ss.ok -> fail(ss.err)
         [] sl.ok /\ tl.ok /\ ss.ok /\ ~pf.ok -> fail(pf.err)
         [] OTHER ->
              IF ~Truthy(self.tag_handling)
              THEN [ok |-> TRUE, params |-> base, err |-> NoErr]
              ELSE IF ~th.ok THEN fail(th.err)
              ELSE IF ~od.ok THEN fail(od.err)
              ELSE LET r == AddTagLists(
                               [tag_handling |-> th.s, outline_detection |-> od.s] @@ base,
                               <<self.non_splitting_tags, self.splitting_tags,
                                 self.ignore_tags>>)
                   IN IF r.ok THEN r ELSE fail(r.err)

(***************************************************************************)
(* The HTTP service: requests.post returns a response with a status code   *)
(* and, for 200, a JSON body.  A body is modelled by what                  *)
(* result["translations"][0]["text"] reads of it.                          *)
(***************************************************************************)
Codes == {200, 400, 403, 404, 413, 429, 456, 500, 503}

Texts == {"Hello", "World"}

\* What the real service answers for the texts of the tests.
Dictionary == [Hello |-> "Hallo", World |-> "Welt"]

Item(t) == [hasText |-> TRUE, text |-> t]

Body(items) == [hasTranslations |-> TRUE, translations |-> items]

NoBody == [hasTranslations |-> FALSE, translations |-> <<>>]

WellFormedBodies(text) ==
    {Body(<<Item(Dictionary[text])>>),
     Body(<<Item(Dictionary[text]), Item("alternative")>>),
     Body(<<Item(text)>>)}

MalformedBodies ==
    {NoBody, Body(<<>>), Body(<<[hasText |-> FALSE, text |-> ""]>>)}

Responses(text) ==
    {[code |-> 200, body |-> b] : b \in WellFormedBodies(text) \cup MalformedBodies}
      \cup {[code |-> c, body |-> NoBody] : c \in Codes \ {200}}

NoResponse == [code |-> 0, body |-> NoBody]

\* Mutant of ExtractText: result["translations"][-1]["text"].
ExtractLastText(body) ==
    IF ~body.hasTranslations
    THEN [ok |-> FALSE, text |-> "", err |-> Err("KeyError", "translations")]
    ELSE IF body.translations = <<>>
    THEN [ok |-> FALSE, text |-> "", err |-> Err("IndexError", "list index out of range")]
    ELSE IF ~body.translations[Len(body.translations)].hasText
    THEN [ok |-> FALSE, text |-> "", err |-> Err("KeyError", "text")]
    ELSE [ok |-> TRUE, text |-> body.translations[Len(body.translations)].text, err |-> NoErr]

\* result["translations"][0]["text"]
ExtractText(body) ==
    IF ~body.hasTranslations
    THEN [ok |-> FALSE, text |-> "", err |-> Err("KeyError", "translations")]
    ELSE IF body.translations = <<>>
    THEN [ok |-> FALSE, text |-> "", err |-> Err("IndexError", "list index out of range")]
    ELSE IF ~body.translations[1].hasText
    THEN [ok |-> FALSE, text |-> "", err |-> Err("KeyError", "text")]
    ELSE [ok |-> TRUE, text |-> body.translations[1].text, err |-> NoErr]

(***************************************************************************)
(* translate_text.  One run of it per text: pc is "pending" (not called    *)
(* yet), "ready" (an invocation translate_text(text, retries) is about to  *)
(* run), "sleeping" (inside time.sleep) or "done" (returned or raised).    *)
(***************************************************************************)
NoResult == [kind |-> "none", text |-> "", err |-> NoErr]

NewRun(text, pc) ==
    [text |-> text, pc |-> pc, retries |-> 0, posts |-> 0, sleeps |-> 0,
     slept |-> 0, warns |-> 0, infos |-> 0, req |-> <<>>, resp |-> NoResponse,
     res |-> NoResult]

Returns(run, text) ==
    [run EXCEPT !.pc = "done", !.res = [kind |-> "ok", text |-> text, err |-> NoErr]]

Raises(run, e) ==
    [run EXCEPT !.pc = "done", !.res = [kind |-> "err", text |-> "", err |-> e]]

\* Mutant of Retryable: the quota status 456 is retried as well.
RetryableWithQuota == {429, 456, 503}

Retryable == {429, 503}

\* Mutant of RetryAllowed: the retry counter is never tested.
RetryAllowedAlways(retries, retry_limit) == TRUE

\* if retries <= self.retry_limit
RetryAllowed(retries, retry_limit) == retries <= retry_limit

\* The exception raised for a status code that is neither 200 nor retryable.
StatusError(code) ==
    CASE code = 400 -> Err("ValueError", "Bad request. Please check error message and your parameters.")
      [] code = 403 -> Err("ValueError", "Authorization failed. Please supply a valid auth_key parameter.")
      [] code = 404 -> Err("NameError", "The requested resource could not be found.")
      [] code = 413 -> Err("ValueError", "The request size exceeds the limit.")
      [] code = 456 -> Err("RuntimeError", "Quota exceeded. The character limit has been reached.")
      [] OTHER -> Err("RuntimeError", "Internal error.")

RetryLimitReached == Err("RuntimeError", "Retry limit reached.")

\* The number of seconds the retry path formats into its info notice and
\* sleeps: self.retry_timeout in deepl_pro, the local timeout = 5 in
\* deepl_translator, and self.timeout in recap_deepl_pro, an attribute no
\* Translator has.
RetryWait(v, self) ==
    CASE v = "deepl_pro" -> [ok |-> TRUE, seconds |-> self.retry_timeout, err |-> NoErr]
      [] v = "deepl_translator" -> [ok |-> TRUE, seconds |-> FixedTimeout, err |-> NoErr]
      [] OTHER ->
           IF "timeout" \in DOMAIN self
           THEN [ok |-> TRUE, seconds |-> self["timeout"], err |-> NoErr]
           ELSE [ok |-> FALSE, seconds |-> 0,
                 err |-> Err("AttributeError", "'Translator' object has no attribute 'timeout'")]

\* Mutant of RetryBranch: the warning is logged before the limit is tested.
RetryBranchWarningFirst(v, self, run) ==
    LET warned == [run EXCEPT !.warns = @ + 1]
        t == RetryWait(v, self)
    IN IF RetryAllowed(run.retries, self.retry_limit)
       THEN IF ~t.ok THEN Raises(warned, t.err)
            ELSE [warned EXCEPT !.infos = @ + 1, !.sleeps = @ + 1,
                                !.slept = @ + t.seconds, !.pc = "sleeping"]
       ELSE Raises(warned, RetryLimitReached)

\* The 429/503 branch of one invocation, after the POST.
RetryBranch(v, self, run) ==
    IF RetryAllowed(run.retries, self.retry_limit)
    THEN LET warned == [run EXCEPT !.warns = @ + 1]
             t == RetryWait(v, self)
         IN IF ~t.ok THEN Raises(warned, t.err)
            ELSE [warned EXCEPT !.infos = @ + 1, !.sleeps = @ + 1,
                                !.slept = @ + t.seconds, !.pc = "sleeping"]
    ELSE Raises(run, RetryLimitReached)

\* Mutant of translate_text: a retry sends the payload without its text.
translate_text_dropping_text(v, self, run, resp) ==
    LET b == _build_request(v, self, run.text)
        sent == IF b.ok /\ run.retries > 0 THEN [b.params EXCEPT !["text"] = ""] ELSE b.params
        posted == [run EXCEPT !.posts = @ + 1, !.req = sent, !.resp = resp]
    IN IF ~b.ok THEN Raises(run, b.err)
       ELSE IF resp.code = 200
       THEN LET x == ExtractText(resp.body)
            IN IF x.ok THEN Returns(posted, x.text) ELSE Raises(posted, x.err)
       ELSE IF resp.code \in Retryable THEN RetryBranch(v, self, posted)
       ELSE Raises(posted, StatusError(resp.code))

\* Mutant of translate_text: a 200 that arrives after a retry is refused.
translate_text_failing_after_retry(v, self, run, resp) ==
    LET b == _build_request(v, self, run.text)
        posted == [run EXCEPT !.posts = @ + 1, !.req = b.params, !.resp = resp]
    IN IF ~b.ok THEN Raises(run, b.err)
       ELSE IF resp.code = 200 /\ run.retries = 0
       THEN LET x == ExtractText(resp.body)
            IN IF x.ok THEN Returns(posted, x.text) ELSE Raises(posted, x.err)
       ELSE IF resp.code \in Retryable THEN RetryBranch(v, self, posted)
       ELSE Raises(posted, StatusError(resp.code))

\* Mutant of translate_text: a 200 whose body cannot be read is retried like
\* a 429.
translate_text_retrying_malformed(v, self, run, resp) ==
    LET b == _build_request(v, self, run.text)
        posted == [run EXCEPT !.posts = @ + 1, !.req = b.params, !.resp = resp]
    IN IF ~b.ok THEN Raises(run, b.err)
       ELSE IF resp.code = 200
       THEN LET x == ExtractText(resp.body)
            IN IF x.ok THEN Returns(posted, x.text) ELSE RetryBranch(v, self, posted)
       ELSE IF resp.code \in Retryable THEN RetryBranch(v, self, posted)
       ELSE Raises(posted, StatusError(resp.code))

\* One invocation translate_text(text, retries), up to its return, its raise
\* or its entry into time.sleep; resp is what the service answers if the
\* invocation gets as far as the POST.
translate_text(v, self, run, resp) ==
    LET b == _build_request(v, self, run.text)
        posted == [run EXCEPT !.posts = @ + 1, !.req = b.params, !.resp = resp]
    IN IF ~b.ok THEN Raises(run, b.err)
       ELSE IF resp.code = 200
       THEN LET x == ExtractText(resp.body)
            IN IF x.ok THEN Returns(posted, x.text) ELSE Raises(posted, x.err)
       ELSE IF resp.code \in Retryable THEN RetryBranch(v, self, posted)
       ELSE Raises(posted, StatusError(resp.code))

\* time.sleep returns and the invocation calls translate_text(text, retries + 1).
AfterSleep(run) == [run EXCEPT !.pc = "ready", !.retries = @ + 1]

(***************************************************************************)
(* Calls and their outcomes.                                               *)
(***************************************************************************)
NoCall == [op |-> "none", texts |-> <<>>, parallel |-> FALSE, order |-> <<>>]

NoOutcome ==
    [kind |-> "none", text |-> "", list |-> <<>>, params |-> <<>>, err |-> NoErr]

Raised(e) == [NoOutcome EXCEPT !.kind = "raised", !.err = e]

ReturnedText(t) == [NoOutcome EXCEPT !.kind = "returned", !.text = t]

ReturnedList(l) == [NoOutcome EXCEPT !.kind = "returned", !.list = l]

ReturnedParams(p) == [NoOutcome EXCEPT !.kind = "returned", !.params = p]

\* The arguments the model constructs Translators with: a language is given
\* as a member, as the code of one, or as a string that is no code; the
\* tag-handling mode is left out or XML.
ArgsWith(modes, tagLists) ==
    [source_lang : {Member("Language", "EN"), Str("en"), Str("xx")},
     target_lang : {Member("Language", "DE"), Str("xx")},
     split_sentences : {Member("SentenceSplitting", "NEWLINES_INTERPUNCTION")},
     preserve_formatting : {Member("Formatting", "DISCARD")},
     tag_handling : modes,
     outline_detection : {Member("Outline", "DETECT")},
     non_splitting_tags : {<<>>},
     splitting_tags : {<<>>},
     ignore_tags : tagLists,
     retry_limit : 0 .. MaxRetryLimit,
     xml_handling : {Unset}]

\* The arguments of the XML test: valid languages and xml_handling=True.
XmlHandlingArgs ==
    {[a EXCEPT !.xml_handling = True] :
        a \in {b \in ArgsWith({Unset}, {<<>>}) :
                 /\ b.source_lang = Member("Language", "EN")
                 /\ b.target_lang = Member("Language", "DE")}}

CtorArgs ==
    ArgsWith({Unset}, {<<>>, <<"b">>})
      \cup ArgsWith({Member("TagHandling", "XML")}, {<<>>, <<"b">>, <<"br">>, <<"b", "i">>})
      \cup XmlHandlingArgs

\* The text lists the model passes to translate_texts.
Batches == {<<>>, <<"Hello">>, <<"Hello", "World">>}

\* Whether the parallel argument is passed, and its value when it is.
ParallelArgs == {"unset", "true", "false"}

Init ==
    /\ variant = "none"
    /\ phase = "new"
    /\ cfg = <<>>
    /\ cfg0 = <<>>
    /\ args = <<>>
    /\ call = NoCall
    /\ w = <<>>
    /\ outcome = NoOutcome

\* Translator(auth_key, source_lang=..., target_lang=..., ...)
Construct ==
    /\ phase = "new"
    /\ \E v \in Variants, a \in CtorArgs :
         LET r == NewTranslator(v, a)
         IN /\ variant' = v
            /\ phase' = IF r.ok THEN "idle" ELSE "ctor_failed"
            /\ cfg' = r.self
            /\ cfg0' = r.self
            /\ args' = a
            /\ outcome' = IF r.ok THEN NoOutcome ELSE Raised(r.err)
            /\ UNCHANGED <<call, w>>

\* translator._build_request(text)
CallBuildRequest ==
    /\ phase = "idle"
    /\ \E text \in Texts :
         LET b == _build_request(variant, cfg, text)
         IN /\ call' = [NoCall EXCEPT !.op = "_build_request", !.texts = <<text>>]
            /\ outcome' = IF b.ok THEN ReturnedParams(b.params) ELSE Raised(b.err)
            /\ w' = <<>>
            /\ UNCHANGED <<variant, phase, cfg, cfg0, args>>

\* translator.translate_text(text): the top-level invocation, retries = 0.
CallTranslateText ==
    /\ phase = "idle"
    /\ \E text \in Texts :
         /\ call' = [NoCall EXCEPT !.op = "translate_text", !.texts = <<text>>]
         /\ w' = <<NewRun(text, "ready")>>
         /\ outcome' = NoOutcome
         /\ phase' = "running"
         /\ UNCHANGED <<variant, cfg, cfg0, args>>

\* Whether translate_texts takes the pool branch: deepl_translator has no
\* other branch; the other two test their parallel parameter (default False).
UsesPool(v, parg) == IF v = "deepl_translator" THEN TRUE ELSE parg = "true"

\* Mutant of StartRuns: every text is started at once in either mode.
StartRunsAllReady(texts, parallel) ==
    [i \in 1 .. Len(texts) |-> NewRun(texts[i], "ready")]

\* The runs a batch starts with: map() calls translate_text for one text
\* after the other, pool.map hands every text to the pool at once (one task
\* per text: chunks of one, as the pool cuts lists this short).
StartRuns(texts, parallel) ==
    [i \in 1 .. Len(texts) |->
        NewRun(texts[i], IF parallel \/ i = 1 THEN "ready" ELSE "pending")]

\* translator.translate_texts(texts[, parallel])
CallTranslateTexts ==
    /\ phase = "idle"
    /\ \E texts \in Batches, parg \in ParallelArgs :
         LET parallel == UsesPool(variant, parg)
             started == [NoCall EXCEPT !.op = "translate_texts", !.texts = texts,
                                       !.parallel = parallel]
         IN IF variant = "deepl_translator" /\ parg # "unset"
            THEN \* translate_texts(self, texts) has no parallel parameter
                 /\ call' = started
                 /\ w' = <<>>
                 /\ outcome' = Raised(Err("TypeError", "unexpected keyword argument 'parallel'"))
                 /\ UNCHANGED <<variant, phase, cfg, cfg0, args>>
            ELSE IF ~parallel /\ texts = <<>>
            THEN \* list(map(f, [])) is []
                 /\ call' = started
                 /\ w' = <<>>
                 /\ outcome' = ReturnedList(<<>>)
                 /\ UNCHANGED <<variant, phase, cfg, cfg0, args>>
            ELSE /\ call' = started
                 /\ w' = StartRuns(texts, parallel)
                 /\ outcome' = NoOutcome
                 /\ phase' = "running"
                 /\ UNCHANGED <<variant, cfg, cfg0, args>>

\* Mutant of Gather: the results in the order the runs finished.
GatherByCompletion(runs, order) == [i \in 1 .. Len(runs) |-> runs[order[i]].res.text]

\* The list translate_texts returns, given the runs of its texts and the
\* order in which they finished: both map() and pool.map place each result
\* at the index of its input.
Gather(runs, order) == [i \in 1 .. Len(runs) |-> runs[i].res.text]

\* The value a call returns once the run of its last text has returned.
ReturnValue(c, runs) ==
    IF c.op = "translate_text"
    THEN ReturnedText(runs[1].res.text)
    ELSE ReturnedList(Gather(runs, c.order))

\* Mutant of FirstError: only the task that finished last is looked at.
LastError(runs, order) ==
    IF order = <<>> THEN NoErr ELSE runs[order[Len(order)]].res.err

\* The exception pool.map raises: the one of the first task that failed.
FirstError(runs, order) ==
    LET failed == {k \in 1 .. Len(order) : runs[order[k]].res.kind = "err"}
    IN IF failed = {} THEN NoErr
       ELSE runs[order[CHOOSE k \in failed : \A j \in failed : k <= j]].res.err

\* Mutant of StepInline: a raise is swallowed and the batch goes on with the
\* next text.
StepInlineSwallow(i, run) ==
    LET runs == [w EXCEPT ![i] = run]
    IN IF run.pc # "done"
       THEN /\ w' = runs
            /\ UNCHANGED <<variant, phase, cfg, cfg0, args, call, outcome>>
       ELSE /\ call' = [call EXCEPT !.order = Append(@, i)]
            /\ IF i < Len(w)
               THEN /\ w' = [runs EXCEPT ![i + 1].pc = "ready"]
                    /\ UNCHANGED <<phase, outcome>>
               ELSE /\ w' = runs
                    /\ outcome' = ReturnValue(call', runs)
                    /\ phase' = "idle"
            /\ UNCHANGED <<variant, cfg, cfg0, args>>

\* One invocation of translate_text for text i, in the calling thread
\* (translate_text itself, or the map() of a sequential batch): a raise ends
\* the call at once, a return starts the next text or ends the call.
StepInline(i, run) ==
    LET runs == [w EXCEPT ![i] = run]
    IN IF run.pc # "done"
       THEN /\ w' = runs
            /\ UNCHANGED <<variant, phase, cfg, cfg0, args, call, outcome>>
       ELSE /\ call' = [call EXCEPT !.order = Append(@, i)]
            /\ IF run.res.kind = "err"
               THEN /\ w' = runs
                    /\ outcome' = Raised(run.res.err)
                    /\ phase' = "idle"
               ELSE IF i < Len(w)
               THEN /\ w' = [runs EXCEPT ![i + 1].pc = "ready"]
                    /\ UNCHANGED <<phase, outcome>>
               ELSE /\ w' = runs
                    /\ outcome' = ReturnValue(call', runs)
                    /\ phase' = "idle"
            /\ UNCHANGED <<variant, cfg, cfg0, args>>

\* One invocation of translate_text for text i in a pool worker.
StepInPool(i, run) ==
    /\ w' = [w EXCEPT ![i] = run]
    /\ call' = IF run.pc = "done" THEN [call EXCEPT !.order = Append(@, i)] ELSE call
    /\ UNCHANGED <<variant, phase, cfg, cfg0, args, outcome>>

Attempt(i) ==
    /\ phase = "running"
    /\ w[i].pc = "ready"
    /\ \E resp \in Responses(w[i].text) :
         LET run == translate_text(variant, cfg, w[i], resp)
         IN IF call.parallel THEN StepInPool(i, run) ELSE StepInline(i, run)

\* Mutant of Wake: one retry counter is shared by all runs of the batch.
WakeSharedCounter(i) ==
    /\ phase = "running"
    /\ w[i].pc = "sleeping"
    /\ w' = [j \in 1 .. Len(w) |->
                IF j = i THEN AfterSleep(w[j])
                ELSE IF w[j].pc = "done" THEN w[j]
                ELSE [w[j] EXCEPT !.retries = @ + 1]]
    /\ UNCHANGED <<variant, phase, cfg, cfg0, args, call, outcome>>

\* Mutant of Wake: the retry budget is kept on the instance and spent there.
WakeSpendingBudget(i) ==
    /\ phase = "running"
    /\ w[i].pc = "sleeping"
    /\ w' = [w EXCEPT ![i] = AfterSleep(w[i])]
    /\ cfg' = [cfg EXCEPT !.retry_limit = @ - 1]
    /\ UNCHANGED <<variant, phase, cfg0, args, call, outcome>>

\* time.sleep(...) of text i's run returns.
Wake(i) ==
    /\ phase = "running"
    /\ w[i].pc = "sleeping"
    /\ w' = [w EXCEPT ![i] = AfterSleep(w[i])]
    /\ UNCHANGED <<variant, phase, cfg, cfg0, args, call, outcome>>

\* pool.map returns in the parent once every task has finished.
PoolMapReturn ==
    /\ phase = "running"
    /\ call.parallel
    /\ \A i \in 1 .. Len(w) : w[i].pc = "done"
    /\ outcome' = IF FirstError(w, call.order) # NoErr
                  THEN Raised(FirstError(w, call.order))
                  ELSE ReturnValue(call, w)
    /\ phase' = "idle"
    /\ UNCHANGED <<variant, cfg, cfg0, args, call, w>>

Next ==
    \/ Construct
    \/ CallBuildRequest
    \/ CallTranslateText
    \/ CallTranslateTexts
    \/ \E i \in 1 .. Len(w) : Attempt(i)
    \/ \E i \in 1 .. Len(w) : Wake(i)
    \/ PoolMapReturn

Spec == Init /\ [][Next]_vars

\* The clients the termination property is checked on: constructed with
\* valid languages and the default options, one for every retry limit.
LiveArgs ==
    {a \in ArgsWith({Unset}, {<<>>}) :
        /\ a.source_lang = Member("Language", "EN")
        /\ a.target_lang = Member("Language", "DE")}

\* The state right after Translator(...) has returned such a client.
LiveInit ==
    /\ variant \in Variants
    /\ args \in LiveArgs
    /\ phase = "idle"
    /\ cfg = NewTranslator(variant, args).self
    /\ cfg0 = cfg
    /\ call = NoCall
    /\ w = <<>>
    /\ outcome = NoOutcome

\* The calls on a constructed client and the steps of their runs.
LiveNext ==
    \/ CallBuildRequest
    \/ CallTranslateText
    \/ CallTranslateTexts
    \/ \E i \in 1 .. Len(w) : Attempt(i)
    \/ \E i \in 1 .. Len(w) : Wake(i)
    \/ PoolMapReturn

\* requests.post returns once the service has answered, time.sleep returns
\* after its seconds, and pool.map returns once its tasks are done: a step
\* of a run that stays possible is taken.  Nothing obliges the caller to
\* make another call.
LiveSpec ==
    /\ LiveInit
    /\ [][LiveNext]_vars
    /\ WF_vars(\E i \in 1 .. Len(w) : Attempt(i))
    /\ WF_vars(\E i \in 1 .. Len(w) : Wake(i))
    /\ WF_vars(PoolMapReturn)

(***************************************************************************)
(* Properties.                                                             *)
(***************************************************************************)
Runs == 1 .. Len(w)

\* The body has a translations list whose first element has a text field.
WellFormed(body) ==
    /\ body.hasTranslations
    /\ Len(body.translations) >= 1
    /\ body.translations[1].hasText

ValidLanguages ==
    /\ cfg.source_lang.type = "Language" /\ cfg.source_lang.v \in LanguageNames
    /\ cfg.target_lang.type = "Language" /\ cfg.target_lang.v \in LanguageNames

\* C1: a finished top-level translate_text call (deepl_pro, deepl_translator)
\* whose every response was 429 or 503 has issued exactly retry_limit + 1
\* POSTs and has failed with "Retry limit reached.".
C1_RetryLimitPlusOnePosts ==
    (/\ variant \in {"deepl_pro", "deepl_translator"}
     /\ call.op = "translate_text"
     /\ phase = "idle"
     /\ w[1].resp.code \in Retryable)
        => /\ w[1].posts = cfg.retry_limit + 1
           /\ outcome = Raised(RetryLimitReached)

\* C2: a run whose first response has a status other than 200, 429 and 503
\* ends with that response: one POST, an error, no sleep, no retry counted;
\* and a run that has ended issues nothing further while its call lasts.
C2_NonRetryableFailsAtOnce ==
    [][phase = "running" =>
         \A i \in Runs :
            /\ (/\ w[i].posts = 0
                /\ w'[i].posts > 0
                /\ w'[i].resp.code \notin {200, 429, 503})
                   => /\ w'[i].posts = 1
                      /\ w'[i].pc = "done"
                      /\ w'[i].res.kind = "err"
                      /\ w'[i].res.err = StatusError(w'[i].resp.code)
                      /\ w'[i].sleeps = 0
                      /\ w'[i].slept = 0
                      /\ w'[i].retries = 0
            /\ w[i].pc = "done" => w'[i] = w[i]]_vars

C2_Witness ==
    /\ phase = "idle"
    /\ call.op = "translate_text"
    /\ w[1].resp.code = 456
    /\ w[1].posts = 1
    /\ w[1].sleeps = 0
    /\ outcome = Raised(StatusError(456))

\* C3: a run whose response is 200 with a well-formed body has returned the
\* text of the first element of that body's translations; when that response
\* is the first one, no sleep has happened; and a translate_text call ending
\* so returns that text.
C3_ReturnsFirstTranslation ==
    \A i \in Runs :
       (w[i].resp.code = 200 /\ WellFormed(w[i].resp.body))
          => /\ w[i].pc = "done"
             /\ w[i].res.kind = "ok"
             /\ w[i].res.text = w[i].resp.body.translations[1].text
             /\ w[i].posts = 1 => (w[i].sleeps = 0 /\ w[i].retries = 0)
             /\ w[i].posts = w[i].retries + 1
             /\ (call.op = "translate_text" /\ phase = "idle")
                   => outcome = ReturnedText(w[i].resp.body.translations[1].text)

\* An echoing transport: translate_text("Hello") has returned "Hello" after
\* one POST, from a body whose list has one element.
C3_Witness ==
    /\ phase = "idle"
    /\ call.op = "translate_text"
    /\ w[1].text = "Hello"
    /\ w[1].posts = 1
    /\ w[1].resp = [code |-> 200, body |-> Body(<<Item("Hello")>>)]
    /\ outcome = ReturnedText("Hello")

TagListKeys == {"non_splitting_tags", "splitting_tags", "ignore_tags"}

\* C4: with a tag-handling mode chosen and active (and valid languages)
\* _build_request returns a request whose keys are the base keys, the two
\* tag-mode keys and the key of each non-empty tag list, that key holding the
\* comma-joined list.
C4_TagListsUnderOwnKeys ==
    (/\ call.op = "_build_request"
     /\ ValidLanguages
     /\ args.tag_handling # Unset
     /\ Truthy(cfg.tag_handling))
        => /\ outcome.kind = "returned"
           /\ DOMAIN outcome.params =
                 BaseKeys \cup TagModeKeys \cup {k \in TagListKeys : cfg[k] # <<>>}
           /\ \A k \in TagListKeys :
                 cfg[k] # <<>> => outcome.params[k] = Join(cfg[k])

\* C5: a request _build_request returns has the six base keys, has the two
\* tag-mode keys exactly when a tag-handling mode was chosen at construction,
\* and has no key of a tag list that is empty.
C5_RequestKeys ==
    (call.op = "_build_request" /\ outcome.kind = "returned")
        => /\ BaseKeys \subseteq DOMAIN outcome.params
           /\ IF args.tag_handling # Unset
              THEN TagModeKeys \subseteq DOMAIN outcome.params
              ELSE TagModeKeys \cap DOMAIN outcome.params = {}
           /\ \A k \in TagListKeys :
                 cfg[k] = <<>> => k \notin DOMAIN outcome.params

\* C6: in a sequential batch the runs are those of the texts in input order,
\* a text is started only after every earlier text has returned, and a batch
\* whose texts all returned has returned the list of their translations,
\* each at the index of its text.
C6_SequentialInOrder ==
    (call.op = "translate_texts" /\ ~call.parallel)
        => /\ Len(w) = Len(call.texts)
           /\ \A i \in Runs : w[i].text = call.texts[i]
           /\ \A j \in Runs :
                 IF w[j].pc = "pending"
                 THEN w[j].posts = 0
                 ELSE \A i \in 1 .. j - 1 : w[i].pc = "done" /\ w[i].res.kind = "ok"
           /\ (phase = "idle" /\ \A i \in Runs : w[i].res.kind = "ok")
                 => /\ outcome.kind = "returned"
                    /\ Len(outcome.list) = Len(call.texts)
                    /\ \A i \in Runs :
                          outcome.list[i] = w[i].resp.body.translations[1].text

\* A sequential batch of two texts has returned both translations, the first
\* text having needed a retry.
C6_Witness ==
    /\ phase = "idle"
    /\ call.op = "translate_texts"
    /\ ~call.parallel
    /\ call.texts = <<"Hello", "World">>
    /\ w[1].posts = 2
    /\ w[2].posts = 1
    /\ outcome = ReturnedList(<<"Hallo", "Welt">>)

\* C7: a list returned by a parallel batch has the length of the input and
\* holds at each index the translation the run of the text at that index
\* received, in whatever order the runs finished.
C7_ParallelKeepsInputOrder ==
    (call.op = "translate_texts" /\ call.parallel /\ outcome.kind = "returned")
        => /\ Len(outcome.list) = Len(call.texts)
           /\ Len(w) = Len(call.texts)
           /\ \A i \in Runs :
                 /\ w[i].text = call.texts[i]
                 /\ w[i].res.kind = "ok"
                 /\ outcome.list[i] = w[i].resp.body.translations[1].text

\* The second text finished before the first one, and the list is in input
\* order all the same.
C7_Witness ==
    /\ phase = "idle"
    /\ call.op = "translate_texts"
    /\ call.parallel
    /\ call.texts = <<"Hello", "World">>
    /\ call.order = <<2, 1>>
    /\ outcome = ReturnedList(<<"Hallo", "Welt">>)

\* C8: in a sequential batch, once the run of a text has failed the batch has
\* ended with that run's error and no list, and no later text was started.
C8_SequentialFailsFast ==
    (call.op = "translate_texts" /\ ~call.parallel)
        => \A i \in Runs :
              w[i].res.kind = "err"
                 => /\ phase = "idle"
                    /\ outcome = Raised(w[i].res.err)
                    /\ \A j \in i + 1 .. Len(w) : w[j].pc = "pending" /\ w[j].posts = 0

\* The first of two texts failed after a retry; the second was never sent.
C8_Witness ==
    /\ phase = "idle"
    /\ call.op = "translate_texts"
    /\ ~call.parallel
    /\ Len(w) = 2
    /\ w[1].res.kind = "err"
    /\ w[1].posts = 2
    /\ w[2].posts = 0
    /\ outcome.kind = "raised"

\* C9: a parallel batch in which the run of some text has failed never
\* returns a list: it ends raising the error of one of its failed runs.
C9_ParallelFailureFailsBatch ==
    (call.op = "translate_texts" /\ call.parallel
       /\ \E i \in Runs : w[i].res.kind = "err")
        => /\ outcome.kind # "returned"
           /\ outcome.list = <<>>
           /\ phase = "idle"
                 => /\ outcome.kind = "raised"
                    /\ \E i \in Runs : w[i].res.kind = "err" /\ outcome.err = w[i].res.err

\* The first text failed, the second one finished after it and succeeded,
\* and the batch raised.
C9_Witness ==
    /\ phase = "idle"
    /\ call.op = "translate_texts"
    /\ call.parallel
    /\ call.order = <<1, 2>>
    /\ w[1].res.kind = "err"
    /\ w[2].res.kind = "ok"
    /\ outcome.kind = "raised"

\* C10: every Translator that exists holds members of Language as its source
\* and target language.
C10_InvalidLanguageRejected ==
    phase \in {"idle", "running"} => ValidLanguages

\* The cause of a run's failure, read off the response that ended it: the
\* status itself, "retry limit" for a 429/503 met with the budget used up,
\* "unexpected" for a status the code has no branch for, and "" otherwise.
FailureCause(run) ==
    CASE run.pc # "done" \/ run.res.kind # "err" \/ run.posts = 0 -> ""
      [] run.resp.code \in {400, 403, 404, 413, 456} -> ToString(run.resp.code)
      [] run.resp.code \in {429, 503} /\ run.retries > cfg.retry_limit -> "retry limit"
      [] run.resp.code \notin {200, 429, 503} -> "unexpected"
      [] OTHER -> ""

\* C11: two runs that failed from different causes among the seven (400,
\* 403, 404, 413, 456, retry limit, unexpected status) raised exceptions of
\* different kinds (exception classes).
C11_OneErrorKindPerCause ==
    \A i \in Runs, j \in Runs :
       (/\ FailureCause(w[i]) # ""
        /\ FailureCause(w[j]) # ""
        /\ FailureCause(w[i]) # FailureCause(w[j]))
           => w[i].res.err.type # w[j].res.err.type

\* C12: in every variant a run has waited once between each two of its POSTs
\* and not after its last one, every wait lasted the client's configured
\* retry timeout, and no run was ended by its retry path other than by the
\* retry limit.
C12_OneConfiguredWaitBetweenPosts ==
    \A i \in Runs :
       /\ w[i].pc = "sleeping" => w[i].sleeps = w[i].posts
       /\ (w[i].pc \in {"ready", "done"} /\ w[i].posts > 0)
             => w[i].sleeps = w[i].posts - 1
       /\ w[i].sleeps > 0
             => /\ "retry_timeout" \in DOMAIN cfg
                /\ w[i].slept = w[i].sleeps * cfg["retry_timeout"]
       /\ (w[i].pc = "done" /\ w[i].resp.code \in {429, 503})
             => w[i].res.err = RetryLimitReached

\* C13: a run whose response is 200 with a body lacking the translations
\* list, its first element or that element's text has ended with a lookup
\* error raised while reading the body: no wait was begun after that response
\* and no POST followed it; a translate_text call ending so raises that error.
C13_MalformedBodyFailsAtOnce ==
    \A i \in Runs :
       (w[i].resp.code = 200 /\ ~WellFormed(w[i].resp.body))
          => /\ w[i].pc = "done"
             /\ w[i].res.kind = "err"
             /\ w[i].res.err.type \in {"KeyError", "IndexError"}
             /\ w[i].posts = w[i].retries + 1
             /\ w[i].sleeps = w[i].retries
             /\ (call.op = "translate_text" /\ phase = "idle")
                   => outcome = Raised(w[i].res.err)

\* The first response is a 200 with an empty translations list, and the call
\* has failed with retries left in the budget.
C13_Witness ==
    /\ phase = "idle"
    /\ call.op = "translate_text"
    /\ cfg.retry_limit >= 1
    /\ w[1].posts = 1
    /\ w[1].sleeps = 0
    /\ w[1].resp = [code |-> 200, body |-> Body(<<>>)]
    /\ outcome = Raised(Err("IndexError", "list index out of range"))

\* C14: every POST of a run carries the request _build_request makes of the
\* run's text and the configuration as constructed, and a retry carries the
\* very payload of the POST before it.
C14_SamePayloadOnEveryPost ==
    [][phase = "running" =>
         \A i \in Runs :
            w'[i].posts # w[i].posts
               => /\ w'[i].posts = w[i].posts + 1
                  /\ w'[i].req = _build_request(variant, cfg0, call.texts[i]).params
                  /\ w[i].posts > 0 => w'[i].req = w[i].req]_vars

\* A run has sent its third POST, the payload being the one built for its
\* text.
C14_Witness ==
    /\ call.op = "translate_text"
    /\ w[1].text = "World"
    /\ w[1].posts = 3
    /\ w[1].req["text"] = "World"
    /\ DOMAIN w[1].req = BaseKeys

\* C15: from construction on, whatever calls were made and however they
\* ended, every field of the Translator has the value the constructor gave it.
C15_ConfigurationUnchanged ==
    phase \in {"idle", "running"}
        => /\ cfg = cfg0
           /\ \A f \in {"split_sentences", "preserve_formatting", "outline_detection",
                        "non_splitting_tags", "splitting_tags", "ignore_tags",
                        "retry_limit"} : cfg[f] = args[f]
           /\ cfg.auth_key = AuthKey

\* A parallel batch has failed after a retry, and the fields are as they were.
C15_Witness ==
    /\ phase = "idle"
    /\ call.op = "translate_texts"
    /\ call.parallel
    /\ outcome.kind = "raised"
    /\ Len(w) = 2
    /\ w[1].retries >= 1
    /\ cfg = cfg0
    /\ cfg.retry_limit = args.retry_limit

\* C16: a run's retry counter is 0 until its first wait ends, goes up by one
\* exactly when a wait that followed a 429/503 answer to its own request
\* ends, and is left alone by the steps of the other runs; a run meets the
\* retry limit only with its own counter past the limit.
C16_RetryCounterPerText ==
    /\ [](\A i \in Runs :
             /\ w[i].posts = 0 => w[i].retries = 0
             /\ w[i].retries <= w[i].posts
             /\ w[i].res.err = RetryLimitReached
                   => (w[i].retries = cfg.retry_limit + 1 /\ w[i].posts = w[i].retries + 1))
    /\ [][phase = "running" =>
             \A i \in Runs :
                w'[i].retries # w[i].retries
                   => /\ w'[i].retries = w[i].retries + 1
                      /\ w[i].pc = "sleeping"
                      /\ w[i].resp.code \in {429, 503}
                      /\ \A j \in Runs \ {i} : w'[j].retries = w[j].retries]_vars

\* In a parallel batch the first text used up its retries while the second
\* one succeeded on its first attempt.
C16_Witness ==
    /\ call.op = "translate_texts"
    /\ call.parallel
    /\ Len(w) = 2
    /\ w[1].res.err = RetryLimitReached
    /\ w[1].retries = cfg.retry_limit + 1
    /\ w[2].res.kind = "ok"
    /\ w[2].retries = 0
    /\ call.order = <<1, 2>>

\* A run without the count of the notices it has logged.
Unlogged(run) == [run EXCEPT !.warns = 0, !.infos = 0]

\* C17, as claimed: a run has logged one warning for every 429/503 response
\* it received, the one that used up the budget included, and one info
\* notice for every wait.
C17_WarningForEveryRetryableResponse ==
    \A i \in Runs :
       /\ w[i].warns = w[i].retries
                         + (IF w[i].pc \in {"sleeping", "done"}
                               /\ w[i].resp.code \in {429, 503}
                            THEN 1 ELSE 0)
       /\ w[i].infos = w[i].sleeps

\* C17, amended: a run has logged one warning for every 429/503 response it
\* received with its retry counter within the limit and none for the response
\* that met the limit, and one info notice for every wait; and what an
\* invocation does next (POST, result, wait) is the same with the notices
\* logged so far left out.
C17_WarningForEveryRetriedResponse ==
    \A i \in Runs :
       /\ w[i].warns = w[i].retries
                         + (IF w[i].pc \in {"sleeping", "done"}
                               /\ w[i].resp.code \in {429, 503}
                               /\ w[i].retries <= cfg.retry_limit
                            THEN 1 ELSE 0)
       /\ w[i].res.err = RetryLimitReached => w[i].warns = w[i].posts - 1
       /\ w[i].infos = w[i].sleeps
       /\ w[i].pc = "ready"
             => \A resp \in Responses(w[i].text) :
                   Unlogged(translate_text(variant, cfg, w[i], resp))
                      = Unlogged(translate_text(variant, cfg, Unlogged(w[i]), resp))

\* A call has met the retry limit: one warning and one info notice for each
\* of its waits, none for its last response.
C17_Witness ==
    /\ phase = "idle"
    /\ call.op = "translate_text"
    /\ outcome = Raised(RetryLimitReached)
    /\ w[1].posts = cfg.retry_limit + 2
    /\ w[1].warns = cfg.retry_limit + 1
    /\ w[1].infos = cfg.retry_limit + 1
    /\ w[1].sleeps = cfg.retry_limit + 1

\* C18: every call that has started ends, by returning (a translate_texts
\* call a list with one entry per text) or by raising, and no run POSTs more
\* often than the retry limit allows.
C18_EveryCallTerminates ==
    /\ (phase = "running")
          ~> /\ phase = "idle"
             /\ outcome.kind \in {"returned", "raised"}
             /\ (call.op = "translate_texts" /\ outcome.kind = "returned")
                   => Len(outcome.list) = Len(call.texts)
             /\ \A i \in Runs : w[i].pc \in {"done", "pending"}
    /\ [](\A i \in Runs : w[i].posts <= cfg.retry_limit + 2)

\* A parallel batch has ended after both of its runs used every retry.
C18_Witness ==
    /\ phase = "idle"
    /\ call.op = "translate_texts"
    /\ call.parallel
    /\ Len(w) = 2
    /\ \A i \in {1, 2} : w[i].posts = cfg.retry_limit + 2 /\ w[i].pc = "done"
    /\ outcome = Raised(RetryLimitReached)

\* C19: a run that is about to POST (its payload can be built) with k retries
\* behind it (k <= the retry limit) has made k POSTs and k waits, the last answer being a 429 or
\* a 503; an answer of 200 with a well-formed body to its next POST makes it
\* return the first translation's text of that answer with k + 1 POSTs and k
\* waits made; and no run meets the retry limit with as few retryable
\* answers as the limit.
C19_SuccessAfterRetries ==
    \A i \in Runs :
       /\ (w[i].pc = "ready" /\ w[i].retries <= cfg.retry_limit
             /\ _build_request(variant, cfg, w[i].text).ok)
             => /\ w[i].posts = w[i].retries
                /\ w[i].sleeps = w[i].retries
                /\ w[i].retries > 0 => w[i].resp.code \in {429, 503}
                /\ \A body \in WellFormedBodies(w[i].text) :
                      LET run == translate_text(variant, cfg, w[i],
                                                [code |-> 200, body |-> body])
                      IN /\ run.pc = "done"
                         /\ run.res = [kind |-> "ok", text |-> body.translations[1].text,
                                       err |-> NoErr]
                         /\ run.posts = w[i].retries + 1
                         /\ run.sleeps = w[i].retries
       /\ (w[i].pc = "done" /\ w[i].resp.code = 200 /\ WellFormed(w[i].resp.body)
             /\ w[i].retries <= cfg.retry_limit)
             => /\ w[i].res.kind = "ok"
                /\ w[i].sleeps = w[i].retries
       /\ w[i].res.err = RetryLimitReached => w[i].posts > cfg.retry_limit + 1

\* translate_text has returned the translation of its third answer, after
\* two retried ones, with a retry limit of 2.
C19_Witness ==
    /\ phase = "idle"
    /\ call.op = "translate_text"
    /\ cfg.retry_limit = 2
    /\ w[1].retries = 2
    /\ w[1].posts = 3
    /\ w[1].sleeps = 2
    /\ w[1].resp.code = 200
    /\ outcome = ReturnedText(Dictionary[w[1].text])

\* C20, as claimed: a deepl_translator Translator given valid languages and
\* xml_handling=True is constructed, with XML tag handling set, and its runs
\* POST with tag_handling "xml" and return the translation of a 200 answer.
C20_XmlHandlingOptionAccepted ==
    (phase # "new" /\ variant = "deepl_translator" /\ args.xml_handling = True)
       => /\ phase # "ctor_failed"
          /\ cfg.tag_handling = Member("TagHandling", "XML")
          /\ \A i \in Runs :
                /\ w[i].posts > 0 => w[i].req["tag_handling"] = "xml"
                /\ (w[i].resp.code = 200 /\ WellFormed(w[i].resp.body))
                      => w[i].res.kind = "ok"

====
